---- MODULE Spec2Model ----
(***************************************************************************)
(* The HomeCasa Agent request-forwarding engine: inbound authentication,   *)
(* the choice of upstream token and base URL, the outbound request and its *)
(* timeout race, and the classification of the upstream response.          *)
(*                                                                         *)
(* The repository holds two builds of the server: version 1.0.7            *)
(* (src/unnamed/part_000) and version 1.0.2 (src/homecasa_agent/server.js).*)
(* The variable build says which one is running.                           *)
(*                                                                         *)
(* Text is a sequence of tokens; a token is an atomic piece of text.  An   *)
(* optional JavaScript value is a set: {} is undefined, {v} is the value v.*)
(***************************************************************************)
EXTENDS Integers, Sequences, FiniteSets, TLC

VARIABLES build, env, cur, calls, resp, nextReq, toArrive

vars == <<build, env, cur, calls, resp, nextReq, toArrive>>

(***************************************************************************)
(* Bounds of the model.                                                    *)
(***************************************************************************)
\* inbound requests handled in one behaviour
MaxReq == 1
\* inbound requests handled in one behaviour of the specification of overlapping
\* requests; at least MaxReq
MaxConcurrent == 2
\* tokens in an inbound key header
MaxKeyLen == 3
\* chunks of an upstream response body
MaxChunks == 3
\* clock steps a call is followed for
MaxTicks == 4
\* characters one body chunk stands for
BlockChars == 100

Builds == {"1.0.7", "1.0.2"}
Req == 1..MaxConcurrent

None == {}
Some(v) == {v}
TheValue(m) == CHOOSE v \in m : TRUE

\* JavaScript truthiness of an optional string: undefined and "" are falsy
Truthy(m) == m # None /\ m # Some(<<>>)
\* a || b
Or(a, b) == IF Truthy(a) THEN a ELSE b

Min(a, b) == IF a <= b THEN a ELSE b

RECURSIVE SeqsUpTo(_, _)
SeqsUpTo(S, n) ==
  IF n = 0 THEN {<<>>}
  ELSE LET shorter == SeqsUpTo(S, n - 1)
       IN  shorter \cup {Append(s, t) : s \in {x \in shorter : Len(x) = n - 1}, t \in S}

(***************************************************************************)
(* Process configuration (environment), read once at start.                *)
(***************************************************************************)
AGENT_API_KEY == env.AGENT_API_KEY
HA_TOKEN == env.HA_TOKEN
SUPERVISOR_TOKEN == env.SUPERVISOR_TOKEN

\* 'http://supervisor/core' and 'http://homeassistant:8123'
SupervisorProxy == [origin |-> "http://supervisor", path |-> << <<"core">> >>]
DefaultDirect == [origin |-> "http://homeassistant:8123", path |-> <<>>]

\* values of the HA_BASE_URL option: 'http://ha.lan:8123', 'http://ha.lan:8123/',
\* 'https://proxy.lan/ha/'; an empty path segment is a slash with nothing after it
BaseUrlOverrides ==
  { [origin |-> "http://ha.lan:8123", path |-> <<>>],
    [origin |-> "http://ha.lan:8123", path |-> << <<>> >>],
    [origin |-> "https://proxy.lan", path |-> << <<"ha">>, <<>> >>] }

\* header values: text over 'Bearer ' and 'k'; the HTTP parser strips the
\* space a value ends with, so none ends with 'Bearer '
KeyTokens == {"Bearer ", "k"}
HeaderValues ==
  {v \in SeqsUpTo(KeyTokens, MaxKeyLen) : v = <<>> \/ v[Len(v)] # "Bearer "}

\* the AGENT_API_KEY option: unset, empty, or the key 'kk'
ConfiguredKeys == {None, Some(<<>>), Some(<<"k", "k">>)}
SupervisorTokens == {None, Some(<<>>), Some(<<"sup">>)}
LongLivedTokens == {None, Some(<<>>), Some(<<"llt">>)}

Environments ==
  [AGENT_API_KEY : ConfiguredKeys,
   HA_TOKEN : LongLivedTokens,
   SUPERVISOR_TOKEN : SupervisorTokens,
   HA_BASE_URL : {None} \cup {Some(u) : u \in BaseUrlOverrides}]

(***************************************************************************)
(* Credential resolution.                                                  *)
(***************************************************************************)
EFFECTIVE_HA_TOKEN == Or(SUPERVISOR_TOKEN, HA_TOKEN)

TOKEN_SOURCE ==
  IF Truthy(SUPERVISOR_TOKEN) THEN "SUPERVISOR_TOKEN"
  ELSE IF Truthy(HA_TOKEN) THEN "HA_TOKEN" ELSE "NONE"

\* version 1.0.7: the supervisor proxy with a supervisor token, else the
\* override, else the direct address
BaseUrl107(e) ==
  IF Truthy(e.SUPERVISOR_TOKEN) THEN SupervisorProxy
  ELSE IF e.HA_BASE_URL # None THEN TheValue(e.HA_BASE_URL) ELSE DefaultDirect

\* version 1.0.2: the override, else the supervisor proxy
BaseUrl102(e) ==
  IF e.HA_BASE_URL # None THEN TheValue(e.HA_BASE_URL) ELSE SupervisorProxy

HA_BASE_URL == IF build = "1.0.7" THEN BaseUrl107(env) ELSE BaseUrl102(env)

(***************************************************************************)
(* URLs.  A path is a sequence of segments, each written after a slash; a  *)
(* segment is text.  <<".">> is the segment '.', <<".", ".">> is '..'.     *)
(***************************************************************************)
\* HA_BASE_URL.replace(/\/$/, ''): drop one trailing slash
StripTrailingSlash(u) ==
  IF Len(u.path) > 0 /\ u.path[Len(u.path)] = <<>>
  THEN [u EXCEPT !.path = SubSeq(u.path, 1, Len(u.path) - 1)]
  ELSE u

DotSegment == <<".">>
DotDotSegment == <<".", ".">>

\* the URL parser's path: '.' is dropped, '..' removes the segment before it,
\* and either of them in last place leaves a trailing slash
RECURSIVE Normalize(_, _)
Normalize(done, rest) ==
  IF rest = <<>> THEN done
  ELSE LET s == Head(rest)
           last == Len(rest) = 1
           popped == IF done = <<>> THEN done ELSE SubSeq(done, 1, Len(done) - 1)
       IN  IF s = DotDotSegment
           THEN Normalize(IF last THEN Append(popped, <<>>) ELSE popped, Tail(rest))
           ELSE IF s = DotSegment
           THEN Normalize(IF last THEN Append(done, <<>>) ELSE done, Tail(rest))
           ELSE Normalize(Append(done, s), Tail(rest))

\* url.pathname: never empty
Pathname(p) == LET n == Normalize(<<>>, p) IN IF n = <<>> THEN << <<>> >> ELSE n

\* the base URL as haRequest uses it: version 1.0.7 strips a trailing slash,
\* version 1.0.2 hands HA_BASE_URL to the URL constructor as it is
EffectiveBase(base) == IF build = "1.0.7" THEN StripTrailingSlash(base) ELSE base

\* version 1.0.7: new URL(HA_BASE_URL.replace(/\/$/, '') + path)
RequestUrl107(base, path) ==
  LET b == StripTrailingSlash(base)
  IN  [origin |-> b.origin, path |-> Pathname(b.path \o path)]

\* version 1.0.2: new URL(path, HA_BASE_URL); path starts with a slash, so it
\* replaces the path of the base
RequestUrl102(base, path) ==
  [origin |-> base.origin, path |-> Pathname(path)]

RequestUrl(base, path) ==
  IF build = "1.0.7" THEN RequestUrl107(base, path) ELSE RequestUrl102(base, path)

(***************************************************************************)
(* Values, failure messages and responses.                                 *)
(***************************************************************************)
\* a value an upstream call returns: a parsed JSON document, or raw text
NoValue == [kind |-> "none", doc |-> "", raw |-> <<>>]
JsonValue(d) == [kind |-> "json", doc |-> d, raw |-> <<>>]
TextValue(t) == [kind |-> "text", doc |-> "", raw |-> t]

\* err.message: a literal text, or `HA returned <status>` with or without
\* `: <body>` after it
NoMsg == [kind |-> "none", status |-> 0, text |-> <<>>]
MsgLit(t) == [kind |-> "literal", status |-> 0, text |-> t]
MsgReturned(st) == [kind |-> "HA returned", status |-> st, text |-> <<>>]
MsgReturnedBody(st, t) == [kind |-> "HA returned:", status |-> st, text |-> t]

NoTokenMessage == MsgLit(<<"No HA token configured">>)

\* the response to an inbound request; count is how many times one was sent
NoResponse ==
  [count |-> 0, status |-> 0, error |-> None, message |-> None,
   value |-> NoValue, wrapped |-> FALSE, text |-> None, health |-> None]

SendStatus(r, st, t) ==
  [r EXCEPT !.count = r.count + 1, !.status = st, !.text = Some(t)]
SendError(r, st, err, msg) ==
  [r EXCEPT !.count = r.count + 1, !.status = st, !.error = Some(err), !.message = msg]
SendJson(r, v, wrap) ==
  [r EXCEPT !.count = r.count + 1, !.status = 200, !.value = v, !.wrapped = wrap]
SendHealth(r, h) ==
  [r EXCEPT !.count = r.count + 1, !.status = 200, !.health = Some(h)]

(***************************************************************************)
(* Inbound authentication.                                                 *)
(***************************************************************************)
\* s.replace('Bearer ', ''): the first occurrence is removed, wherever it is
ReplaceBearer(s) ==
  IF \E i \in 1..Len(s) : s[i] = "Bearer "
  THEN LET i == CHOOSE j \in 1..Len(s) :
                  /\ s[j] = "Bearer "
                  /\ \A k \in 1..(j - 1) : s[k] # "Bearer "
       IN  SubSeq(s, 1, i - 1) \o SubSeq(s, i + 1, Len(s))
  ELSE s

\* a candidate key that prefers the Authorization header
ApiKey_BearerFirst(xkey, authorization) ==
  IF authorization # None THEN Some(ReplaceBearer(TheValue(authorization))) ELSE xkey

\* req.headers['x-agent-api-key'] || req.headers['authorization']?.replace(...)
ApiKey(xkey, authorization) ==
  IF Truthy(xkey) THEN xkey
  ELSE IF authorization = None THEN None
  ELSE Some(ReplaceBearer(TheValue(authorization)))

\* authMiddleware comparing the keys before it looks whether one is configured
authMiddleware_KeyFirst(path, xkey, authorization) ==
  IF path = "/health" THEN "next"
  ELSE IF ApiKey(xkey, authorization) # AGENT_API_KEY THEN "401"
  ELSE "next"

authMiddleware(path, xkey, authorization) ==
  IF path = "/health" THEN "next"
  ELSE IF ~Truthy(AGENT_API_KEY) THEN "next"
  ELSE IF ApiKey(xkey, authorization) # AGENT_API_KEY THEN "401"
  ELSE "next"

\* characters of a token, and of a text
PREVIEW_LIMIT == 10
Chars(t) == IF t = "Bearer " THEN 7 ELSE 1
RECURSIVE TextChars(_)
TextChars(s) == IF s = <<>> THEN 0 ELSE Chars(Head(s)) + TextChars(Tail(s))

\* apiKey.substring(0, 10): the tokens it holds whole, and how many characters
\* of the token after them
Preview(s) ==
  LET fits(i) == TextChars(SubSeq(s, 1, i)) <= PREVIEW_LIMIT
      n == CHOOSE i \in 0..Len(s) : fits(i) /\ (i = Len(s) \/ ~fits(i + 1))
  IN  [whole |-> SubSeq(s, 1, n),
       part |-> IF n = Len(s) THEN 0 ELSE PREVIEW_LIMIT - TextChars(SubSeq(s, 1, n))]

\* what the 'Invalid API key' log line says of the received key: version 1.0.7
\* logs providedKey, a preview or 'none'; version 1.0.2 logs the path alone
InvalidKeyLog(xkey, authorization) ==
  LET apiKey == ApiKey(xkey, authorization)
  IN  IF build = "1.0.7" /\ Truthy(apiKey) THEN Some(Preview(TheValue(apiKey))) ELSE None

\* a chain that lets the /api/... routes skip authMiddleware
Middleware_ApiOpen(method, path, xkey, authorization) ==
  IF method = "OPTIONS" THEN "preflight"
  ELSE IF path \in {"/api/states", "/api/states/:entityId", "/api/config",
                    "/api/services/:domain/:service"} THEN "next"
  ELSE authMiddleware(path, xkey, authorization)

\* a chain with authMiddleware ahead of the CORS middleware
Middleware_AuthFirst(method, path, xkey, authorization) ==
  IF authMiddleware(path, xkey, authorization) = "401" THEN "401"
  ELSE IF method = "OPTIONS" THEN "preflight"
  ELSE "next"

\* the CORS middleware, then authMiddleware
Middleware(method, path, xkey, authorization) ==
  IF method = "OPTIONS" THEN "preflight"
  ELSE authMiddleware(path, xkey, authorization)

(***************************************************************************)
(* haRequest, up to the creation of the network request.                   *)
(***************************************************************************)
\* haRequest throwing for an undefined token only, not for an empty one
haRequestThrows_UndefinedOnly == EFFECTIVE_HA_TOKEN = None

haRequestThrows == ~Truthy(EFFECTIVE_HA_TOKEN)

\* options of the outbound request
RequestOptions(method, path) ==
  LET url == RequestUrl(HA_BASE_URL, path)
  IN  [method |-> method, origin |-> url.origin, path |-> url.path,
       authorization |-> <<"Bearer ">> \o TheValue(EFFECTIVE_HA_TOKEN)]

NoOptions == [method |-> "", origin |-> "", path |-> <<>>, authorization |-> <<>>]

(***************************************************************************)
(* Route handlers, up to their call of haRequest.                          *)
(***************************************************************************)
Seg(t) == <<t>>

EntityIds ==
  {<<"light", ".", "kitchen">>, <<"light">>, <<".", ".">>, <<"light", ".", "a", ".", "b">>}
DomainNames == {<<"light">>}
ServiceNames == {<<"turn_on">>}

EmptyObject == [k \in {} |-> <<>>]
ServiceData ==
  {None, Some(EmptyObject), Some([k \in {"transition"} |-> <<"2">>]),
   Some([k \in {"entity_id"} |-> <<"light">>])}

\* req.body of the POST routes
Bodies ==
  [domain : {None, Some(<<>>)} \cup {Some(d) : d \in DomainNames},
   service : {None} \cup {Some(x) : x \in ServiceNames},
   entity_id : {None, Some(<<>>)} \cup {Some(e) : e \in EntityIds},
   service_data : ServiceData,
   brightness : {None, Some(<<"0">>)},
   brightness_pct : {None, Some(<<"50">>)}]

NoBody ==
  [domain |-> None, service |-> None, entity_id |-> None, service_data |-> None,
   brightness |-> None, brightness_pct |-> None]

NoParams == [entityId |-> <<>>, domain |-> <<>>, service |-> <<>>]

\* the object with the given fields set, over the fields it has
WithField(obj, k, v) ==
  [x \in DOMAIN obj \cup {k} |-> IF x = k THEN v ELSE obj[x]]

\* req.body as an object, for the passthrough route
ScalarFields == {"domain", "service", "entity_id", "brightness", "brightness_pct"}
ObjectOf(body) ==
  [k \in {f \in ScalarFields : body[f] # None} |-> TheValue(body[k])]

\* a split that keeps the text before the last '.'
SplitFirst_Last(s) ==
  IF \E i \in 1..Len(s) : s[i] = "."
  THEN LET i == CHOOSE j \in 1..Len(s) :
                  s[j] = "." /\ \A k \in (j + 1)..Len(s) : s[k] # "."
       IN  SubSeq(s, 1, i - 1)
  ELSE s

\* entity_id.split('.')[0]: the text before the first '.'
SplitFirst(s) ==
  IF \E i \in 1..Len(s) : s[i] = "."
  THEN LET i == CHOOSE j \in 1..Len(s) :
                  s[j] = "." /\ \A k \in 1..(j - 1) : s[k] # "."
       IN  SubSeq(s, 1, i - 1)
  ELSE s

NoPlan ==
  [kind |-> "notfound", status |-> 404, error |-> "", method |-> "", path |-> <<>>,
   payload |-> None, wrapped |-> FALSE, label |-> ""]
RespondPlan(st, err) == [NoPlan EXCEPT !.kind = "respond", !.status = st, !.error = err]
CallPlan(m, p, pl, wrap, lab) ==
  [NoPlan EXCEPT !.kind = "call", !.status = 0, !.method = m, !.path = p,
                 !.payload = pl, !.wrapped = wrap, !.label = lab]

ServicePath(domain, service) == <<Seg("api"), Seg("services"), domain, service>>

GetStates == CallPlan("GET", <<Seg("api"), Seg("states")>>, None, FALSE, "Failed to fetch states")
GetState(entityId) ==
  CallPlan("GET", <<Seg("api"), Seg("states"), entityId>>, None, FALSE,
           "Failed to fetch entity state")
GetConfig == CallPlan("GET", <<Seg("api"), Seg("config")>>, None, FALSE, "Failed to fetch config")

\* call-service answering 400 only when both domain and service are missing
CallService_BothMissing(body) ==
  IF ~Truthy(body.domain) /\ ~Truthy(body.service)
  THEN RespondPlan(400, "Missing domain or service")
  ELSE LET text(f) == IF Truthy(f) THEN TheValue(f) ELSE <<"undefined">>
       IN  CallPlan("POST", ServicePath(text(body.domain), text(body.service)),
                    Some(EmptyObject), TRUE, "Failed to call service")

\* call-service letting an entity_id inside service_data win over the top-level one
CallService_DataWins(body) ==
  IF ~Truthy(body.domain) \/ ~Truthy(body.service)
  THEN RespondPlan(400, "Missing domain or service")
  ELSE LET spread == IF body.service_data = None THEN EmptyObject
                     ELSE TheValue(body.service_data)
           payload == IF Truthy(body.entity_id) /\ "entity_id" \notin DOMAIN spread
                      THEN WithField(spread, "entity_id", TheValue(body.entity_id))
                      ELSE spread
       IN  CallPlan("POST", ServicePath(TheValue(body.domain), TheValue(body.service)),
                    Some(payload), TRUE, "Failed to call service")

CallService(body) ==
  IF ~Truthy(body.domain) \/ ~Truthy(body.service)
  THEN RespondPlan(400, "Missing domain or service")
  ELSE LET spread == IF body.service_data = None THEN EmptyObject
                     ELSE TheValue(body.service_data)
           payload == IF Truthy(body.entity_id)
                      THEN WithField(spread, "entity_id", TheValue(body.entity_id))
                      ELSE spread
       IN  CallPlan("POST", ServicePath(TheValue(body.domain), TheValue(body.service)),
                    Some(payload), TRUE, "Failed to call service")

\* an entity route that takes an entity_id without a '.' for a validation failure
EntityService_DotRequired(body, service, lab) ==
  IF ~Truthy(body.entity_id) THEN RespondPlan(400, "Missing entity_id")
  ELSE IF \A i \in 1..Len(TheValue(body.entity_id)) : TheValue(body.entity_id)[i] # "."
  THEN RespondPlan(400, "Invalid entity_id")
  ELSE LET entity_id == TheValue(body.entity_id)
       IN  CallPlan("POST", ServicePath(SplitFirst(entity_id), Seg(service)),
                    Some([k \in {"entity_id"} |-> entity_id]), TRUE, lab)

EntityService(body, service, lab) ==
  IF ~Truthy(body.entity_id) THEN RespondPlan(400, "Missing entity_id")
  ELSE LET entity_id == TheValue(body.entity_id)
           domain == SplitFirst(entity_id)
       IN  CallPlan("POST", ServicePath(domain, Seg(service)),
                    Some([k \in {"entity_id"} |-> entity_id]), TRUE, lab)

Toggle(body) == EntityService(body, "toggle", "Failed to toggle")
TurnOff(body) == EntityService(body, "turn_off", "Failed to turn off")

\* turn-on sending a brightness_pct of 100 when the caller gave none
TurnOn_Defaulted(body) ==
  IF ~Truthy(body.entity_id) THEN RespondPlan(400, "Missing entity_id")
  ELSE LET entity_id == TheValue(body.entity_id)
           p0 == [k \in {"entity_id"} |-> entity_id]
           p1 == IF body.brightness # None
                 THEN WithField(p0, "brightness", TheValue(body.brightness)) ELSE p0
           p2 == WithField(p1, "brightness_pct",
                           IF body.brightness_pct # None THEN TheValue(body.brightness_pct)
                           ELSE <<"100">>)
       IN  CallPlan("POST", ServicePath(SplitFirst(entity_id), Seg("turn_on")), Some(p2),
                    TRUE, "Failed to turn on")

TurnOn(body) ==
  IF ~Truthy(body.entity_id) THEN RespondPlan(400, "Missing entity_id")
  ELSE LET entity_id == TheValue(body.entity_id)
           domain == SplitFirst(entity_id)
           p0 == [k \in {"entity_id"} |-> entity_id]
           p1 == IF body.brightness # None
                 THEN WithField(p0, "brightness", TheValue(body.brightness)) ELSE p0
           p2 == IF body.brightness_pct # None
                 THEN WithField(p1, "brightness_pct", TheValue(body.brightness_pct)) ELSE p1
       IN  CallPlan("POST", ServicePath(domain, Seg("turn_on")), Some(p2), TRUE,
                    "Failed to turn on")

ProxyService(params, body) ==
  CallPlan("POST", ServicePath(params.domain, params.service), Some(ObjectOf(body)),
           FALSE, "Failed to call service")

HealthPlan == [NoPlan EXCEPT !.kind = "health", !.status = 200]

Routes ==
  {<<"GET", "/health">>, <<"GET", "/ha/states">>, <<"GET", "/ha/states/:entityId">>,
   <<"POST", "/ha/call-service">>, <<"POST", "/ha/toggle">>, <<"POST", "/ha/turn-on">>,
   <<"POST", "/ha/turn-off">>, <<"GET", "/ha/config">>, <<"GET", "/api/states">>,
   <<"GET", "/api/states/:entityId">>, <<"GET", "/api/config">>,
   <<"POST", "/api/services/:domain/:service">>}

Paths == {r[2] : r \in Routes} \cup {"/unknown"}

\* the handler the router runs for a request
Handler(method, path, params, body) ==
  CASE <<method, path>> = <<"GET", "/health">> -> HealthPlan
    [] <<method, path>> = <<"GET", "/ha/states">> -> GetStates
    [] <<method, path>> = <<"GET", "/ha/states/:entityId">> -> GetState(params.entityId)
    [] <<method, path>> = <<"POST", "/ha/call-service">> -> CallService(body)
    [] <<method, path>> = <<"POST", "/ha/toggle">> -> Toggle(body)
    [] <<method, path>> = <<"POST", "/ha/turn-on">> -> TurnOn(body)
    [] <<method, path>> = <<"POST", "/ha/turn-off">> -> TurnOff(body)
    [] <<method, path>> = <<"GET", "/ha/config">> -> GetConfig
    [] <<method, path>> = <<"GET", "/api/states">> -> GetStates
    [] <<method, path>> = <<"GET", "/api/states/:entityId">> -> GetState(params.entityId)
    [] <<method, path>> = <<"GET", "/api/config">> -> GetConfig
    [] <<method, path>> = <<"POST", "/api/services/:domain/:service">> ->
         ProxyService(params, body)
    [] OTHER -> NoPlan

(***************************************************************************)
(* haRequest: the network request, its timers and its promises.            *)
(***************************************************************************)
REQUEST_TIMEOUT == 15000
SOCKET_EXTRA == 5000
SOCKET_TIMEOUT_102 == 10000
SUBSTRING_LIMIT == 200
ERROR_STATUS == 400

\* the clock advances by a third of the timeout budget
TickMs == REQUEST_TIMEOUT \div 3
Horizon == MaxTicks * TickMs

SocketTimeoutMs == IF build = "1.0.7" THEN REQUEST_TIMEOUT + SOCKET_EXTRA ELSE SOCKET_TIMEOUT_102

Statuses == {200, 400, 404}

\* JSON documents an upstream body may hold, written with ' for the double quote
JsonDocs ==
  {"null", "5", "'ok'", "[]", "{}", "{'message':'Entity not found'}", "{'message':''}"}
\* upstream bodies: one JSON document, or chunks of text that is not JSON
UpstreamBodies == {<<d>> : d \in JsonDocs} \cup SeqsUpTo({"<html>"}, MaxChunks)
Chunks == JsonDocs \cup {"<html>"}

\* JSON.parse(data) returns (rather than throws)
JSONParses(data) == Len(data) = 1 /\ data[1] \in JsonDocs
\* parsed.message: undefined unless the document is an object holding one;
\* reading it from null throws
PropertyThrows(doc) == doc = "null"
MessageOf(doc) ==
  CASE doc = "{'message':'Entity not found'}" -> Some(<<"Entity not found">>)
    [] doc = "{'message':''}" -> Some(<<>>)
    [] OTHER -> None

\* data.substring(0, 200)
Substring(data) == SubSeq(data, 1, Min(Len(data), SUBSTRING_LIMIT \div BlockChars))

Pending == [state |-> "pending", value |-> NoValue, message |-> NoMsg]
Fulfilled(v) == [state |-> "fulfilled", value |-> v, message |-> NoMsg]
Rejected(m) == [state |-> "rejected", value |-> NoValue, message |-> m]

\* an 'end' handler that rejects every body JSON.parse throws on
OnEnd_RejectUnparsed(statusCode, data) ==
  IF JSONParses(data) /\ statusCode < ERROR_STATUS THEN Fulfilled(JsonValue(data[1]))
  ELSE Rejected(MsgReturnedBody(statusCode, data))

\* the 'end' handler of the response: how it settles requestPromise
OnEnd(statusCode, data) ==
  LET doc == data[1]
      tryThrows == \/ ~JSONParses(data)
                   \/ statusCode >= ERROR_STATUS /\ PropertyThrows(doc)
  IN  IF ~tryThrows
      THEN IF statusCode >= ERROR_STATUS
           THEN IF Truthy(MessageOf(doc))
                THEN Rejected(MsgLit(TheValue(MessageOf(doc))))
                ELSE Rejected(MsgReturned(statusCode))
           ELSE Fulfilled(JsonValue(doc))
      ELSE IF statusCode >= ERROR_STATUS
           THEN Rejected(MsgReturnedBody(statusCode,
                           IF build = "1.0.7" THEN Substring(data) ELSE data))
           ELSE Fulfilled(TextValue(data))

TimeoutMessage == [kind |-> "Request timeout after ms", status |-> REQUEST_TIMEOUT, text |-> <<>>]
SocketTimeoutMessage ==
  IF build = "1.0.7" THEN MsgLit(<<"Socket timeout">>) ELSE MsgLit(<<"Request timeout">>)
NetworkErrors == {MsgLit(<<"connect ECONNREFUSED">>), MsgLit(<<"socket hang up">>)}

\* resolve and reject act on a pending promise only
Settle(promise, settlement) == IF promise.state = "pending" THEN settlement ELSE promise

\* a race the promise settled last wins
Race_LastWins(returned, settlement) == settlement

\* Promise.race([requestPromise, timeoutPromise]): the first to settle
Race(returned, settlement) == Settle(returned, settlement)

NoCall ==
  [conn |-> "none", wrapped |-> FALSE, label |-> "", statusCode |-> 0, data |-> <<>>,
   age |-> 0, idle |-> 0, timer |-> "none", sock |-> "off",
   requestPromise |-> Pending, timeoutPromise |-> Pending, returned |-> Pending,
   first |-> "none", firstResult |-> Pending, attempts |-> 0]

\* the call as haRequest leaves it: request sent, timers armed
StartCall(plan) ==
  [NoCall EXCEPT !.conn = "waiting", !.wrapped = plan.wrapped, !.label = plan.label,
                 !.timer = IF build = "1.0.7" THEN "armed" ELSE "none",
                 !.sock = "armed", !.attempts = 1]

\* a handler passing the upstream status on to the caller
Continue_UpstreamStatus(r, c, settled) ==
  IF settled.state = "fulfilled" THEN SendJson(r, settled.value, c.wrapped)
  ELSE SendError(r, IF c.statusCode >= ERROR_STATUS THEN c.statusCode ELSE 500,
                 c.label, Some(settled.message))

\* the handler after its await: one response, from the settled promise
Continue(r, c, settled) ==
  IF settled.state = "fulfilled" THEN SendJson(r, settled.value, c.wrapped)
  ELSE SendError(r, 500, c.label, Some(settled.message))

\* a callback settled a promise of call id: the call becomes c, and the handler
\* resumes when the promise haRequest returned has just settled
Resume(id, c) ==
  /\ calls' = [calls EXCEPT ![id] = c]
  /\ resp' = IF calls[id].returned.state = "pending" /\ c.returned.state # "pending"
             THEN [resp EXCEPT ![id] = Continue(resp[id], c, c.returned)]
             ELSE resp

\* history: the first event of a call that settles a promise, and how
First(c, event) == IF c.first = "none" THEN event ELSE c.first
FirstResult(c, settlement) == IF c.first = "none" THEN settlement ELSE c.firstResult

\* a request sent again once after it failed
SettleRequest_Retry(c, settlement, event) ==
  IF settlement.state = "rejected" /\ c.attempts < 2
  THEN [c EXCEPT !.conn = "waiting", !.statusCode = 0, !.data = <<>>, !.idle = 0,
                 !.sock = "armed", !.attempts = c.attempts + 1]
  ELSE LET p == Settle(c.requestPromise, settlement)
       IN  [c EXCEPT !.requestPromise = p,
                     !.returned = IF build = "1.0.7" THEN Race(c.returned, p) ELSE p,
                     !.first = First(c, event),
                     !.firstResult = FirstResult(c, settlement)]

\* requestPromise settles; version 1.0.2 returns requestPromise itself
SettleRequest(c, settlement, event) ==
  LET p == Settle(c.requestPromise, settlement)
  IN  [c EXCEPT !.requestPromise = p,
                !.returned = IF build = "1.0.7" THEN Race(c.returned, p) ELSE p,
                !.first = First(c, event),
                !.firstResult = FirstResult(c, settlement)]

(***************************************************************************)
(* State.                                                                  *)
(*   cur     the inbound request the middleware chain ran last, with what  *)
(*           the chain did with it; discarded at the next step             *)
(*   calls   the upstream call of each inbound request                     *)
(*   resp    the response sent to each inbound request                     *)
(*   nextReq the number the next inbound request gets                      *)
(*   toArrive how many inbound requests are still to arrive                *)
(***************************************************************************)
NoCur ==
  [id |-> 0, method |-> "", path |-> "", xkey |-> None, authorization |-> None,
   params |-> NoParams, body |-> NoBody, stage |-> "none", plan |-> NoPlan,
   called |-> FALSE, threw |-> FALSE, options |-> NoOptions, logged |-> None]

\* the configurations the upstream call is followed under: no inbound key and
\* a supervisor token; an inbound key, a long-lived token and a base URL; an
\* inbound key and no token
DeployedEnvironments ==
  { [AGENT_API_KEY |-> None, HA_TOKEN |-> None, SUPERVISOR_TOKEN |-> Some(<<"sup">>),
     HA_BASE_URL |-> None],
    [AGENT_API_KEY |-> Some(<<"k", "k">>), HA_TOKEN |-> Some(<<>>),
     SUPERVISOR_TOKEN |-> None, HA_BASE_URL |-> None],
    [AGENT_API_KEY |-> Some(<<"k", "k">>), HA_TOKEN |-> Some(<<"llt">>),
     SUPERVISOR_TOKEN |-> Some(<<>>),
     HA_BASE_URL |-> Some([origin |-> "http://ha.lan:8123", path |-> << <<>> >>])] }

InitWith(environments, requests) ==
  /\ build \in Builds
  /\ env \in environments
  /\ cur = NoCur
  /\ calls = [id \in Req |-> NoCall]
  /\ resp = [id \in Req |-> NoResponse]
  /\ nextReq = 1
  /\ toArrive = requests

Init == InitWith(DeployedEnvironments, MaxReq)
\* every configuration
InitAny == InitWith(Environments, MaxReq)
\* overlapping requests, with a supervisor token and no inbound key
InitConcurrent ==
  InitWith({e \in DeployedEnvironments : Truthy(e.SUPERVISOR_TOKEN)}, MaxConcurrent)

\* a health response counting an empty token as configured
HealthBody_TokenPresent ==
  [status |-> "ok", version |-> build,
   ha_configured |-> (SUPERVISOR_TOKEN # None \/ HA_TOKEN # None)]

\* the body of the health response: ha_configured is !!(SUPERVISOR_TOKEN || HA_TOKEN)
HealthBody ==
  [status |-> "ok", version |-> build,
   ha_configured |-> Truthy(Or(SUPERVISOR_TOKEN, HA_TOKEN))]

OptionalHeader == {None} \cup {Some(v) : v \in HeaderValues}
\* every pair of key headers
AllHeaders == OptionalHeader \X OptionalHeader
\* no key, the key 'kk' in either header, another key
SomeHeaders ==
  {<<None, None>>, <<Some(<<"k", "k">>), None>>, <<None, Some(<<"Bearer ", "k", "k">>)>>,
   <<Some(<<"k">>), None>>}

(***************************************************************************)
(* An inbound request runs through the CORS middleware, authMiddleware and *)
(* its route handler, to the response or to the start of the upstream call.*)
(***************************************************************************)
Receive(method, path, headers, params, body) ==
  /\ LET id == nextReq
         xkey == headers[1]
         authorization == headers[2]
         mw == Middleware(method, path, xkey, authorization)
         plan == Handler(method, path, params, body)
         calling == mw = "next" /\ plan.kind = "call"
         threw == calling /\ haRequestThrows
         r == resp[id]
     IN  /\ nextReq' = nextReq + 1
         /\ toArrive' = toArrive - 1
         /\ resp' = [resp EXCEPT ![id] =
              CASE mw = "preflight" -> SendStatus(r, 200, <<"OK">>)
                [] mw = "401" ->
                     SendError(r, 401, "Unauthorized",
                               Some(MsgLit(<<"Invalid or missing API key">>)))
                [] mw = "next" /\ plan.kind = "notfound" -> SendStatus(r, 404, <<"Not Found">>)
                [] mw = "next" /\ plan.kind = "respond" ->
                     SendError(r, plan.status, plan.error, None)
                [] mw = "next" /\ plan.kind = "health" ->
                     SendHealth(r, HealthBody)
                [] threw -> SendError(r, 500, plan.label, Some(NoTokenMessage))
                [] OTHER -> r]
         /\ calls' = IF calling /\ ~threw
                     THEN [calls EXCEPT ![id] = StartCall(plan)]
                     ELSE calls
         /\ cur' = [id |-> id, method |-> method, path |-> path, xkey |-> xkey,
                    authorization |-> authorization, params |-> params, body |-> body,
                    stage |-> IF mw = "next" THEN "handler" ELSE mw,
                    plan |-> IF mw = "next" THEN plan ELSE NoPlan,
                    called |-> calling, threw |-> threw,
                    options |-> IF calling /\ ~threw
                                THEN RequestOptions(plan.method, plan.path)
                                ELSE NoOptions,
                    logged |-> IF mw = "401" THEN InvalidKeyLog(xkey, authorization)
                               ELSE None]
  /\ UNCHANGED <<build, env>>

\* a server that takes no request while an upstream call is awaited
CanReceive_Serial ==
  /\ toArrive > 0
  /\ \A id \in Req : calls[id].conn = "none" \/ calls[id].returned.state # "pending"

\* a request can arrive while there is one to arrive: the handlers are async
\* and await haRequest, so a call in progress holds no request back
CanReceive == toArrive > 0

Preflight ==
  /\ CanReceive
  /\ \E path \in Paths, h \in SomeHeaders : Receive("OPTIONS", path, h, NoParams, NoBody)

GetHealth == CanReceive /\ \E h \in AllHeaders : Receive("GET", "/health", h, NoParams, NoBody)

GetHaStates == CanReceive /\ \E h \in AllHeaders : Receive("GET", "/ha/states", h, NoParams, NoBody)

GetHaState ==
  /\ CanReceive
  /\ \E h \in SomeHeaders, e \in EntityIds :
    Receive("GET", "/ha/states/:entityId", h, [NoParams EXCEPT !.entityId = e], NoBody)

PostCallService ==
  /\ CanReceive
  /\ \E h \in SomeHeaders, b \in Bodies :
    /\ b.brightness = None /\ b.brightness_pct = None
    /\ Receive("POST", "/ha/call-service", h, NoParams, b)

EntityBodies ==
  {b \in Bodies : /\ b.domain = None /\ b.service = None /\ b.service_data = None
                  /\ b.brightness = None /\ b.brightness_pct = None}

PostToggle ==
  /\ CanReceive
  /\ \E h \in SomeHeaders, b \in EntityBodies : Receive("POST", "/ha/toggle", h, NoParams, b)

PostTurnOn ==
  /\ CanReceive
  /\ \E h \in SomeHeaders, b \in Bodies :
    /\ b.domain = None /\ b.service = None /\ b.service_data = None
    /\ Receive("POST", "/ha/turn-on", h, NoParams, b)

PostTurnOff ==
  /\ CanReceive
  /\ \E h \in SomeHeaders, b \in EntityBodies : Receive("POST", "/ha/turn-off", h, NoParams, b)

GetHaConfig == CanReceive /\ \E h \in SomeHeaders : Receive("GET", "/ha/config", h, NoParams, NoBody)

GetApiStates == CanReceive /\ \E h \in SomeHeaders : Receive("GET", "/api/states", h, NoParams, NoBody)

GetApiState ==
  /\ CanReceive
  /\ \E h \in SomeHeaders, e \in EntityIds :
    Receive("GET", "/api/states/:entityId", h, [NoParams EXCEPT !.entityId = e], NoBody)

GetApiConfig == CanReceive /\ \E h \in SomeHeaders : Receive("GET", "/api/config", h, NoParams, NoBody)

PostApiService ==
  /\ CanReceive
  /\ \E h \in SomeHeaders, d \in DomainNames, x \in ServiceNames, b \in Bodies :
    /\ b.domain = None /\ b.service = None /\ b.service_data = None
    /\ b.brightness = None
    /\ Receive("POST", "/api/services/:domain/:service", h,
               [NoParams EXCEPT !.domain = d, !.service = x], b)

\* a request no route matches
NotFound ==
  /\ CanReceive
  /\ \E h \in SomeHeaders, mp \in {<<"GET", "/unknown">>, <<"POST", "/health">>} :
    Receive(mp[1], mp[2], h, NoParams, NoBody)

(***************************************************************************)
(* The upstream and the timers.                                            *)
(***************************************************************************)
Live(c) ==
  c.conn # "none" /\ (c.returned.state = "pending" \/ c.timer = "armed" \/ c.sock = "armed")

TimerDue(c) == c.timer = "armed" /\ c.age >= REQUEST_TIMEOUT
SocketDue(c) == c.sock = "armed" /\ c.idle >= SocketTimeoutMs

Quiet == /\ cur' = NoCur
         /\ UNCHANGED <<build, env, nextReq, toArrive>>

\* the response callback: status line and headers arrived
ResponseStart(id) ==
  /\ calls[id].conn = "waiting"
  /\ \E st \in Statuses :
       Resume(id, [calls[id] EXCEPT !.conn = "streaming", !.statusCode = st, !.idle = 0])
  /\ Quiet

\* res.on('data'): data += chunk, for a chunk of the given ones
ResponseDataOf(id, chunks) ==
  /\ calls[id].conn = "streaming"
  /\ \E chunk \in chunks :
       /\ Append(calls[id].data, chunk) \in UpstreamBodies
       /\ Resume(id, [calls[id] EXCEPT !.data = Append(@, chunk), !.idle = 0])
  /\ Quiet

ResponseData(id) == ResponseDataOf(id, Chunks)

\* the bodies the upstream sends to overlapping requests: a JSON list
ConcurrentChunks == {"[]"}

\* res.on('end')
ResponseEnd(id) ==
  /\ calls[id].conn = "streaming"
  /\ LET c == calls[id]
         ended == [c EXCEPT !.conn = "ended", !.sock = "off"]
     IN  Resume(id, SettleRequest(ended, OnEnd(c.statusCode, c.data), "end"))
  /\ Quiet

\* req.on('error'): a network error, or the socket hanging up after req.destroy()
RequestError(id) ==
  /\ \/ calls[id].conn \in {"waiting", "streaming"}
     \/ calls[id].conn = "destroyed" /\ calls[id].statusCode = 0
  /\ \E err \in NetworkErrors :
       LET failed == [calls[id] EXCEPT !.conn = "failed", !.sock = "off"]
       IN  Resume(id, SettleRequest(failed, Rejected(err), "error"))
  /\ Quiet

\* the upstream closes the connection before the body is complete: the response
\* is aborted, 'end' is never emitted and no listener hears of it
UpstreamClose(id) ==
  /\ calls[id].conn = "streaming"
  /\ Resume(id, [calls[id] EXCEPT !.conn = "closed", !.sock = "off"])
  /\ Quiet

\* the setTimeout callback of timeoutPromise
RequestTimeout(id) ==
  /\ TimerDue(calls[id])
  /\ LET c == calls[id]
         t == Settle(c.timeoutPromise, Rejected(TimeoutMessage))
     IN  Resume(id, [c EXCEPT !.timer = "fired", !.timeoutPromise = t,
                              !.returned = Race(c.returned, t),
                              !.first = First(c, "timeout"),
                              !.firstResult = FirstResult(c, Rejected(TimeoutMessage))])
  /\ Quiet

\* the req.setTimeout callback: req.destroy(), then reject
SocketTimeout(id) ==
  /\ SocketDue(calls[id])
  /\ calls[id].conn \in {"waiting", "streaming"}
  /\ LET destroyed == [calls[id] EXCEPT !.conn = "destroyed", !.sock = "fired"]
     IN  Resume(id, SettleRequest(destroyed, Rejected(SocketTimeoutMessage), "socket"))
  /\ Quiet

\* a clock step still tells something of the call: it is followed for longer,
\* or its socket timeout comes nearer
Counting(c) ==
  Live(c) /\ (c.age < Horizon \/ (c.sock = "armed" /\ c.idle < SocketTimeoutMs))

\* time passes, unless a timer is due
Tick ==
  /\ \E id \in Req : Counting(calls[id])
  /\ \A id \in Req : ~TimerDue(calls[id]) /\ ~SocketDue(calls[id])
  /\ calls' = [id \in Req |->
       LET c == calls[id]
       IN  IF Live(c)
           THEN [c EXCEPT !.age = Min(c.age + TickMs, Horizon),
                          !.idle = IF c.sock = "armed"
                                   THEN Min(c.idle + TickMs, Horizon) ELSE c.idle]
           ELSE c]
  /\ UNCHANGED resp
  /\ Quiet

\* the inbound requests alone
Inbound ==
  \/ Preflight
  \/ GetHealth
  \/ GetHaStates
  \/ GetHaState
  \/ PostCallService
  \/ PostToggle
  \/ PostTurnOn
  \/ PostTurnOff
  \/ GetHaConfig
  \/ GetApiStates
  \/ GetApiState
  \/ GetApiConfig
  \/ PostApiService
  \/ NotFound

Next ==
  \/ Preflight
  \/ GetHealth
  \/ GetHaStates
  \/ GetHaState
  \/ PostCallService
  \/ PostToggle
  \/ PostTurnOn
  \/ PostTurnOff
  \/ GetHaConfig
  \/ GetApiStates
  \/ GetApiState
  \/ GetApiConfig
  \/ PostApiService
  \/ NotFound
  \/ \E id \in Req : ResponseStart(id)
  \/ \E id \in Req : ResponseData(id)
  \/ \E id \in Req : ResponseEnd(id)
  \/ \E id \in Req : RequestError(id)
  \/ \E id \in Req : UpstreamClose(id)
  \/ \E id \in Req : RequestTimeout(id)
  \/ \E id \in Req : SocketTimeout(id)
  \/ Tick

Spec == Init /\ [][Next]_vars

\* the middleware chain and the handlers under every configuration, up to the
\* start of the upstream call
SpecInbound == InitAny /\ [][Inbound]_vars

\* requests that overlap: health checks and configuration fetches, with the
\* upstream and the timers
Concurrent ==
  \/ GetHealth
  \/ GetHaConfig
  \/ \E id \in Req : ResponseStart(id)
  \/ \E id \in Req : ResponseDataOf(id, ConcurrentChunks)
  \/ \E id \in Req : ResponseEnd(id)
  \/ \E id \in Req : RequestError(id)
  \/ \E id \in Req : UpstreamClose(id)
  \/ \E id \in Req : RequestTimeout(id)
  \/ \E id \in Req : SocketTimeout(id)
  \/ Tick

SpecConcurrent == InitConcurrent /\ [][Concurrent]_vars

\* the event loop runs: time passes, and a timer that is due fires.  Nothing
\* is asked of the upstream, which may answer, fail, close or stay silent.
EventLoop ==
  /\ WF_vars(Tick)
  /\ \A id \in Req : WF_vars(RequestTimeout(id)) /\ WF_vars(SocketTimeout(id))

SpecLive == Init /\ [][Next]_vars /\ EventLoop

(***************************************************************************)
(* Properties.                                                             *)
(***************************************************************************)
\* the request the chain ran last reached authMiddleware
Authenticated == cur.stage \in {"handler", "401"}
\* the handler of the last request called haRequest, which created a request
Called == cur.called /\ ~cur.threw

\* text with a leading 'Bearer ' removed
WithoutBearerPrefix(s) == IF s # <<>> /\ s[1] = "Bearer " THEN Tail(s) ELSE s
\* the candidate key of a request: the X-Agent-Api-Key header, else the
\* Authorization header without its 'Bearer ' prefix
CandidateKey(xkey, authorization) ==
  IF Truthy(xkey) THEN xkey
  ELSE IF authorization = None THEN None
  ELSE Some(WithoutBearerPrefix(TheValue(authorization)))

\* C1: with an inbound key K configured, a request to a path other than /health
\* passes authentication exactly when its candidate key equals K, and is
\* answered 401 otherwise.
C1_KeyDecidesAuthentication ==
  (Authenticated /\ cur.path # "/health" /\ Truthy(AGENT_API_KEY)) =>
    /\ (cur.stage = "handler") <=> (CandidateKey(cur.xkey, cur.authorization) = AGENT_API_KEY)
    /\ (cur.stage = "401") => (resp[cur.id].status = 401)

\* C2: with no inbound key configured, every request passes authentication
\* whatever key headers it carries, and none is answered 401.
C2_NoKeyEveryRequestPasses ==
  ~Truthy(AGENT_API_KEY) =>
    /\ \A id \in Req : resp[id].status # 401
    /\ (cur.stage # "none" /\ cur.method # "OPTIONS") => (cur.stage = "handler")

\* a request with a key header passed while the configured key is empty
C2_Witness ==
  /\ AGENT_API_KEY = Some(<<>>)
  /\ cur.stage = "handler"
  /\ cur.xkey = Some(<<"k">>)
  /\ cur.authorization = Some(<<"Bearer ", "k">>)
  /\ cur.path = "/ha/states"

\* C3: with a supervisor token present, every outbound call carries the
\* supervisor token and goes to the supervisor proxy http://supervisor/core,
\* whatever long-lived token or base-URL override is configured.
C3_SupervisorTokenFixesTarget ==
  (Called /\ Truthy(SUPERVISOR_TOKEN)) =>
    /\ cur.options.authorization = <<"Bearer ">> \o TheValue(SUPERVISOR_TOKEN)
    /\ HA_BASE_URL = SupervisorProxy
    /\ cur.options.origin = SupervisorProxy.origin

\* C4: with a long-lived token only, outbound calls carry that token and the
\* base URL is the override without a trailing slash if one is configured, else
\* the direct address http://homeassistant:8123.
C4_LongLivedTokenTarget ==
  (Called /\ ~Truthy(SUPERVISOR_TOKEN) /\ Truthy(HA_TOKEN)) =>
    LET expected == IF env.HA_BASE_URL # None
                    THEN StripTrailingSlash(TheValue(env.HA_BASE_URL))
                    ELSE DefaultDirect
    IN  /\ cur.options.authorization = <<"Bearer ">> \o TheValue(HA_TOKEN)
        /\ EffectiveBase(HA_BASE_URL) = expected
        /\ cur.options.origin = expected.origin

\* C5: with neither token configured, a call of haRequest fails with the
\* configuration error before any network request is created, and the inbound
\* caller receives 500.
C5_NoTokenFailsFast ==
  (cur.called /\ ~Truthy(SUPERVISOR_TOKEN) /\ ~Truthy(HA_TOKEN)) =>
    /\ cur.threw
    /\ calls[cur.id] = NoCall
    /\ resp[cur.id].count = 1
    /\ resp[cur.id].status = 500
    /\ resp[cur.id].message = Some(NoTokenMessage)

\* a handler called haRequest with both tokens set but empty
C5_Witness ==
  /\ cur.called /\ cur.threw
  /\ SUPERVISOR_TOKEN = Some(<<>>) /\ HA_TOKEN = Some(<<>>)
  /\ cur.path = "/ha/toggle"
  /\ resp[cur.id].status = 500

\* C6: the path of every outbound request is the path of the base URL, without
\* a trailing slash, followed by the upstream path the handler gave.
C6_BasePathPreserved ==
  Called => (cur.options.path = StripTrailingSlash(HA_BASE_URL).path \o cur.plan.path)

\* what the 'end' handler is to produce for a body
ExpectedValue(data) == IF JSONParses(data) THEN JsonValue(data[1]) ELSE TextValue(data)
ExpectedMessage(statusCode, data) ==
  IF JSONParses(data)
  THEN IF Truthy(MessageOf(data[1])) THEN MsgLit(TheValue(MessageOf(data[1])))
       ELSE MsgReturned(statusCode)
  ELSE MsgReturnedBody(statusCode, Substring(data))

\* C7: an upstream call has one outcome, that of the first event among the
\* timeout, the completed response, a network error and the socket timeout;
\* later events change neither the outcome nor the response to the caller.
C7_FirstEventDecides ==
  \A id \in Req :
    LET c == calls[id]
    IN  /\ (c.first = "none") <=> (c.returned.state = "pending")
        /\ (c.conn # "none" /\ c.first = "none") => (resp[id].count = 0)
        /\ (c.first # "none") =>
             /\ c.returned = c.firstResult
             /\ resp[id] = Continue(NoResponse, c, c.firstResult)
        /\ (c.first = "timeout") => (c.returned = Rejected(TimeoutMessage))
        /\ (c.first = "end") => (c.returned = OnEnd(c.statusCode, c.data))
        /\ (c.first = "socket") => (c.returned = Rejected(SocketTimeoutMessage))
        /\ (c.first = "error") =>
             (c.returned.state = "rejected" /\ c.returned.message \in NetworkErrors)

\* the timeout decided a call whose response then completed with status 200
C7_Witness ==
  \E id \in Req :
    /\ calls[id].first = "timeout"
    /\ calls[id].conn = "ended"
    /\ calls[id].statusCode = 200
    /\ JSONParses(calls[id].data)
    /\ resp[id].status = 500

\* C8: a call whose response never completes fails with the timeout error when
\* the timeout budget has elapsed, not at the socket timeout.
C8_TimeoutAtBudget ==
  \A id \in Req :
    LET c == calls[id]
    IN  /\ (c.conn # "none" /\ c.age > REQUEST_TIMEOUT) => (c.returned.state # "pending")
        /\ (c.first \notin {"none", "end", "error"}) =>
             (c.first = "timeout" /\ c.returned = Rejected(TimeoutMessage))

\* C9: a response with status >= 400 fails the call, with the message field of
\* a JSON body, `HA returned <status>` for a JSON body without one, and
\* `HA returned <status>: <truncated body>` for a body that is not JSON.
C9_ErrorMessages ==
  \A id \in Req :
    LET c == calls[id]
    IN  (c.conn = "ended" /\ c.first = "end" /\ c.statusCode >= 400) =>
          (c.returned = Rejected(ExpectedMessage(c.statusCode, c.data)))

\* C10 as stated: every completed response with status < 400 makes the call
\* succeed, with the parsed JSON value or the raw text.
C10_EveryCompletedResponse ==
  \A id \in Req :
    LET c == calls[id]
    IN  (c.conn = "ended" /\ c.statusCode < 400) =>
          /\ c.returned = Fulfilled(ExpectedValue(c.data))
          /\ resp[id].status = 200
          /\ resp[id].value = ExpectedValue(c.data)

\* C10: a response with status < 400 that completes before any timeout of the
\* call has fired makes the call succeed, with the parsed JSON value or the raw
\* text, which the handler sends to the caller.
C10_ResponseBelow400Succeeds ==
  \A id \in Req :
    LET c == calls[id]
    IN  (c.conn = "ended" /\ c.first = "end" /\ c.statusCode < 400) =>
          /\ c.returned = Fulfilled(ExpectedValue(c.data))
          /\ resp[id].count = 1
          /\ resp[id].status = 200
          /\ resp[id].value = ExpectedValue(c.data)
          /\ resp[id].wrapped = c.wrapped

\* a response with status 200 and an empty body went to the caller as raw text
C10_Witness ==
  \E id \in Req :
    /\ calls[id].conn = "ended" /\ calls[id].first = "end"
    /\ calls[id].statusCode = 200
    /\ calls[id].data = <<>>
    /\ ~calls[id].wrapped
    /\ resp[id].status = 200
    /\ resp[id].value = TextValue(<<>>)

\* a field the request does not give, or gives empty
Missing(f) == f \in {None, Some(<<>>)}
EntityRoutes == {"/ha/toggle", "/ha/turn-on", "/ha/turn-off"}

\* C11: a call-service request without domain or service, and a toggle, turn-on
\* or turn-off request without entity_id, is answered 400 and starts no upstream
\* call.
C11_MissingFieldsRejectedLocally ==
  (cur.stage = "handler" /\ cur.method = "POST") =>
    LET b == cur.body
        invalid ==
          \/ cur.path = "/ha/call-service" /\ (Missing(b.domain) \/ Missing(b.service))
          \/ cur.path \in EntityRoutes /\ Missing(b.entity_id)
    IN  invalid => /\ resp[cur.id].count = 1
                   /\ resp[cur.id].status = 400
                   /\ ~cur.called
                   /\ calls[cur.id] = NoCall

\* a call-service request with a domain and an entity but no service got 400
C11_Witness ==
  /\ cur.stage = "handler" /\ cur.path = "/ha/call-service"
  /\ cur.body.domain = Some(<<"light">>)
  /\ cur.body.service = None
  /\ cur.body.entity_id = Some(<<"light", ".", "kitchen">>)
  /\ resp[cur.id].status = 400
  /\ calls[cur.id] = NoCall

\* C12: a validation failure is answered 400, an authentication failure 401, and
\* a failed upstream call (timeout, network error, upstream status >= 400,
\* no token) 500 with the message of the call's failure.
C12_FailureStatuses ==
  /\ \A id \in Req :
       LET c == calls[id]
           r == resp[id]
       IN  /\ (c.returned.state = "rejected") =>
                /\ r.count = 1 /\ r.status = 500
                /\ r.error = Some(c.label)
                /\ r.message = Some(c.returned.message)
           /\ (r.status = 500) =>
                \/ c.returned.state = "rejected"
                \/ c = NoCall /\ r.message = Some(NoTokenMessage)
           /\ (c.first = "end" /\ c.statusCode = 404
                 /\ c.data = <<"{'message':'Entity not found'}">>) =>
                (r.status = 500 /\ r.message = Some(MsgLit(<<"Entity not found">>)))
  /\ (cur.stage = "401") => (resp[cur.id].status = 401)
  /\ (cur.stage = "handler" /\ cur.plan.kind = "respond") => (resp[cur.id].status = 400)
  /\ cur.threw => (resp[cur.id].status = 500 /\ resp[cur.id].message = Some(NoTokenMessage))

\* the upstream answered 404 with {"message":"Entity not found"}
C12_Witness ==
  \E id \in Req :
    /\ calls[id].first = "end" /\ calls[id].statusCode = 404
    /\ calls[id].data = <<"{'message':'Entity not found'}">>
    /\ resp[id].status = 500
    /\ resp[id].message = Some(MsgLit(<<"Entity not found">>))

\* C13: every error response (400, 401, 500) carries both an error field and a
\* message field.
C13_ErrorBodyHasErrorAndMessage ==
  \A id \in Req :
    (resp[id].status \in {400, 401, 500}) =>
      (resp[id].error # None /\ resp[id].message # None)

\* C14: an inbound request causes at most one outbound attempt, exactly one when
\* it is authenticated, valid, for an upstream-backed route and a token is
\* configured; a failed call is not sent again.
C14_OneAttempt ==
  /\ \A id \in Req :
       /\ calls[id].attempts <= 1
       /\ (calls[id].attempts = 1) <=> (calls[id].conn # "none")
       /\ (calls[id].returned.state = "rejected") => (calls[id].attempts = 1)
       /\ (id >= nextReq) => (calls[id].attempts = 0)
  /\ (cur.stage # "none") =>
       LET due == /\ cur.stage = "handler" /\ cur.plan.kind = "call"
                  /\ Truthy(SUPERVISOR_TOKEN) \/ Truthy(HA_TOKEN)
       IN  calls[cur.id].attempts = IF due THEN 1 ELSE 0

\* a call failed with a network error and time went on to the timeout
C14_Witness ==
  \E id \in Req :
    /\ calls[id].first = "error"
    /\ calls[id].timer = "fired"
    /\ calls[id].attempts = 1
    /\ resp[id].status = 500

\* C15: GET /health passes authentication whatever key is configured or sent,
\* makes no upstream call, and answers 200 with status "ok" and ha_configured
\* true exactly when a supervisor token or a long-lived token is set (not empty).
C15_HealthAlwaysAnswers ==
  (cur.method = "GET" /\ cur.path = "/health") =>
    /\ cur.stage = "handler"
    /\ ~cur.called
    /\ calls[cur.id] = NoCall
    /\ resp[cur.id].count = 1
    /\ resp[cur.id].status = 200
    /\ resp[cur.id].health # None
    /\ TheValue(resp[cur.id].health).status = "ok"
    /\ TheValue(resp[cur.id].health).ha_configured
         = (Truthy(SUPERVISOR_TOKEN) \/ Truthy(HA_TOKEN))

\* a health check with a wrong key, a key configured and an empty token
C15_Witness ==
  /\ cur.method = "GET" /\ cur.path = "/health"
  /\ AGENT_API_KEY = Some(<<"k", "k">>)
  /\ cur.xkey = Some(<<"k">>)
  /\ SUPERVISOR_TOKEN = None /\ HA_TOKEN = Some(<<>>)
  /\ resp[cur.id].status = 200
  /\ resp[cur.id].health # None
  /\ ~TheValue(resp[cur.id].health).ha_configured

\* an Authorization header of the form 'Bearer <key>'
BearerHeader(authorization) ==
  /\ authorization # None
  /\ TheValue(authorization) # <<>>
  /\ TheValue(authorization)[1] = "Bearer "

\* C17 as stated: with both key headers present, the X-Agent-Api-Key value
\* alone decides.
C17_DedicatedHeaderAlone ==
  (Authenticated /\ cur.path # "/health" /\ Truthy(AGENT_API_KEY)
     /\ cur.xkey # None /\ BearerHeader(cur.authorization)) =>
    ((cur.stage = "handler") <=> (cur.xkey = AGENT_API_KEY))

\* C17: with an X-Agent-Api-Key header that is not empty and a Bearer
\* Authorization header both present, the X-Agent-Api-Key value alone decides: the request
\* passes exactly when it equals the configured key, whatever the Bearer key is.
C17_NonEmptyDedicatedHeaderAlone ==
  (Authenticated /\ cur.path # "/health" /\ Truthy(AGENT_API_KEY)
     /\ Truthy(cur.xkey) /\ BearerHeader(cur.authorization)) =>
    /\ (cur.stage = "handler") <=> (cur.xkey = AGENT_API_KEY)
    /\ (cur.stage = "401") <=> (resp[cur.id].status = 401)

\* a wrong X-Agent-Api-Key with the right Bearer key was rejected
C17_Witness ==
  /\ AGENT_API_KEY = Some(<<"k", "k">>)
  /\ cur.xkey = Some(<<"k">>)
  /\ cur.authorization = Some(<<"Bearer ", "k", "k">>)
  /\ cur.path = "/ha/states"
  /\ cur.stage = "401"
  /\ resp[cur.id].status = 401

\* C18: a turn-on request with an entity_id calls POST
\* /api/services/<domain>/turn_on with a body of entity_id and exactly those of
\* brightness and brightness_pct the caller gave.
C18_TurnOnBody ==
  (cur.stage = "handler" /\ cur.path = "/ha/turn-on" /\ ~Missing(cur.body.entity_id)) =>
    LET b == cur.body
        e == TheValue(b.entity_id)
        supplied == {f \in {"brightness", "brightness_pct"} : b[f] # None}
    IN  /\ cur.called
        /\ cur.plan.method = "POST"
        /\ cur.plan.path = <<Seg("api"), Seg("services"), SplitFirst(e), Seg("turn_on")>>
        /\ cur.plan.payload # None
        /\ DOMAIN TheValue(cur.plan.payload) = {"entity_id"} \cup supplied
        /\ TheValue(cur.plan.payload).entity_id = e
        /\ \A f \in supplied : TheValue(cur.plan.payload)[f] = TheValue(b[f])
        /\ ~cur.threw => (cur.options.method = "POST" /\ calls[cur.id].attempts = 1)

\* turn-on of light.kitchen with brightness_pct 50 and no brightness
C18_Witness ==
  /\ cur.stage = "handler" /\ cur.path = "/ha/turn-on"
  /\ cur.body.entity_id = Some(<<"light", ".", "kitchen">>)
  /\ cur.body.brightness = None
  /\ cur.body.brightness_pct = Some(<<"50">>)
  /\ Called
  /\ cur.plan.path = <<Seg("api"), Seg("services"), <<"light">>, Seg("turn_on")>>
  /\ DOMAIN TheValue(cur.plan.payload) = {"entity_id", "brightness_pct"}

\* the text holds the key as a run of its tokens
Contains(text, key) ==
  \E i \in 0..(Len(text) - Len(key)) : SubSeq(text, i + 1, i + Len(key)) = key

\* C19: on a 401, neither the response nor the log line holds the configured
\* key, and the log line holds a truncated preview of the received key, never the
\* whole of it.
C19_RejectionLeaksNothing ==
  (cur.stage = "401") =>
    /\ resp[cur.id].error = Some("Unauthorized")
    /\ resp[cur.id].message = Some(MsgLit(<<"Invalid or missing API key">>))
    /\ (cur.logged # None) =>
         LET shown == TheValue(cur.logged)
             received == TheValue(ApiKey(cur.xkey, cur.authorization))
         IN  /\ ~Contains(shown.whole, TheValue(AGENT_API_KEY))
             /\ shown.whole # received

\* C20: a request answered 401 reaches no route handler: it gets no validation
\* response and starts no upstream call, on every route but /health, the
\* /api/... routes included.
C20_RejectedNeverReachesHandler ==
  /\ (cur.stage = "401") =>
       /\ cur.path # "/health"
       /\ resp[cur.id].count = 1 /\ resp[cur.id].status = 401
       /\ cur.plan = NoPlan /\ ~cur.called /\ ~cur.threw
       /\ calls[cur.id] = NoCall
  /\ (/\ cur.stage # "none" /\ cur.method # "OPTIONS" /\ cur.path # "/health"
      /\ Truthy(AGENT_API_KEY)
      /\ \/ cur.xkey = None /\ cur.authorization = None
         \/ Truthy(cur.xkey) /\ cur.xkey # AGENT_API_KEY) =>
       (cur.stage = "401")

\* a passthrough service call with a wrong key was answered 401
C20_Witness ==
  /\ cur.stage = "401"
  /\ cur.path = "/api/services/:domain/:service"
  /\ cur.xkey = Some(<<"k">>)
  /\ resp[cur.id].status = 401
  /\ calls[cur.id] = NoCall

\* C16: while a request waits on its upstream call, another request can be
\* taken, dispatched and answered, and the upstream of every call can go on;
\* the response to each request is that of its own call's first event.
C16_RequestsDoNotBlock ==
  /\ (toArrive > 0) => (ENABLED GetHealth /\ ENABLED GetHaConfig)
  /\ \A id \in Req :
       LET c == calls[id]
       IN  /\ (c.conn = "waiting") => ENABLED ResponseStart(id)
           /\ (c.conn = "streaming") => ENABLED ResponseEnd(id)
           /\ (c.conn # "none" /\ c.first = "none") => (resp[id].count = 0)
           /\ (c.first # "none") => (resp[id] = Continue(NoResponse, c, c.firstResult))
           /\ (c.first = "end") => (c.firstResult = OnEnd(c.statusCode, c.data))
           /\ (c.first = "timeout") => (c.firstResult = Rejected(TimeoutMessage))
           /\ (c.first = "socket") => (c.firstResult = Rejected(SocketTimeoutMessage))

\* the second request was answered with its own list while the first had been
\* waiting on its call for two thirds of the timeout
C16_Witness ==
  /\ calls[1].conn = "waiting"
  /\ calls[1].returned.state = "pending"
  /\ calls[1].age >= 2 * TickMs
  /\ resp[1].count = 0
  /\ calls[2].first = "end"
  /\ calls[2].age < calls[1].age
  /\ resp[2].status = 200
  /\ resp[2].value = JsonValue("[]")

\* C21: every inbound request is answered once and only once, whatever the
\* upstream does: a request that arrived is eventually answered, and none is
\* answered twice.
C21_EveryRequestAnsweredOnce ==
  /\ [](\A id \in Req : resp[id].count <= 1)
  /\ \A id \in Req : [](id < nextReq => <>(resp[id].count = 1))

\* C21 in version 1.0.7
C21_AnsweredOnce107 ==
  /\ [](\A id \in Req : resp[id].count <= 1)
  /\ \A id \in Req : [](id < nextReq /\ build = "1.0.7" => <>(resp[id].count = 1))

\* the prefixes of a text, and the one that ends where its first '.' stands, or
\* the whole text when it has none
Prefixes(s) == {SubSeq(s, 1, n) : n \in 0..Len(s)}
BeforeFirstDot(s) ==
  CHOOSE p \in Prefixes(s) :
    /\ \A i \in 1..Len(p) : p[i] # "."
    /\ Len(p) = Len(s) \/ s[Len(p) + 1] = "."
\* the upstream service of each entity route
ServiceOf(path) ==
  CASE path = "/ha/toggle" -> <<"toggle">>
    [] path = "/ha/turn-on" -> <<"turn_on">>
    [] path = "/ha/turn-off" -> <<"turn_off">>
\* the last n segments of a path
LastSegments(path, n) == SubSeq(path, Len(path) - n + 1, Len(path))

\* C22: a toggle, turn-on or turn-off request with an entity_id calls POST
\* /api/services/<domain>/<toggle|turn_on|turn_off>, the domain being the text of
\* entity_id before its first '.', with a body holding that entity_id unchanged.
C22_EntityServiceCall ==
  (cur.stage = "handler" /\ cur.path \in EntityRoutes /\ ~Missing(cur.body.entity_id)) =>
    LET e == TheValue(cur.body.entity_id)
        upstream == <<Seg("api"), Seg("services"), BeforeFirstDot(e), ServiceOf(cur.path)>>
    IN  /\ cur.called
        /\ cur.plan.method = "POST"
        /\ cur.plan.path = upstream
        /\ cur.plan.payload # None
        /\ "entity_id" \in DOMAIN TheValue(cur.plan.payload)
        /\ TheValue(cur.plan.payload).entity_id = e
        /\ cur.path # "/ha/turn-on" => DOMAIN TheValue(cur.plan.payload) = {"entity_id"}
        /\ ~cur.threw =>
             /\ cur.options.method = "POST"
             /\ LastSegments(cur.options.path, 4) = upstream
             /\ calls[cur.id].attempts = 1

\* a toggle of light.a.b went to the domain light
C22_Witness ==
  /\ cur.stage = "handler" /\ cur.path = "/ha/toggle"
  /\ cur.body.entity_id = Some(<<"light", ".", "a", ".", "b">>)
  /\ Called
  /\ cur.plan.path = <<Seg("api"), Seg("services"), <<"light">>, <<"toggle">>>>
  /\ TheValue(cur.plan.payload) = [k \in {"entity_id"} |-> <<"light", ".", "a", ".", "b">>]

\* the text holds no '.'
Dotless(s) == \A i \in 1..Len(s) : s[i] # "."

\* C23: a toggle, turn-on or turn-off request whose entity_id has no '.' gets no
\* validation response: the handler calls the upstream with the whole entity_id
\* as the domain, which is not the empty text.
C23_DotlessEntityIsCalled ==
  (/\ cur.stage = "handler" /\ cur.path \in EntityRoutes
   /\ ~Missing(cur.body.entity_id) /\ Dotless(TheValue(cur.body.entity_id))) =>
    LET e == TheValue(cur.body.entity_id)
    IN  /\ cur.plan.kind = "call"
        /\ cur.called
        /\ resp[cur.id].status # 400
        /\ cur.plan.path = <<Seg("api"), Seg("services"), e, ServiceOf(cur.path)>>
        /\ cur.plan.path[3] # <<>>
        /\ TheValue(cur.plan.payload).entity_id = e
        /\ ~cur.threw =>
             /\ calls[cur.id].attempts = 1
             /\ resp[cur.id].count = 0
             /\ cur.options.path[Len(cur.options.path) - 1] = e

\* a turn-off of the entity 'light' was sent to the domain 'light'
C23_Witness ==
  /\ cur.stage = "handler" /\ cur.path = "/ha/turn-off"
  /\ cur.body.entity_id = Some(<<"light">>)
  /\ Called
  /\ cur.plan.path = <<Seg("api"), Seg("services"), <<"light">>, <<"turn_off">>>>
  /\ calls[cur.id].attempts = 1

\* the upstream body a call-service request asks for: the fields of its
\* service_data, and its entity_id over them when it gives one
ExpectedServiceBody(b) ==
  LET data == IF b.service_data = None THEN EmptyObject ELSE TheValue(b.service_data)
      given == ~Missing(b.entity_id)
      keys == DOMAIN data \cup (IF given THEN {"entity_id"} ELSE {})
  IN  [k \in keys |-> IF k = "entity_id" /\ given THEN TheValue(b.entity_id) ELSE data[k]]

\* C24: a call-service request with domain and service calls POST
\* /api/services/<domain>/<service> with the fields of service_data and, when an
\* entity_id is given, that entity_id over any in service_data; when the call
\* succeeds the caller gets {success: true, result: <the upstream result>}.
C24_CallServiceBodyAndResult ==
  /\ (/\ cur.stage = "handler" /\ cur.path = "/ha/call-service"
      /\ ~Missing(cur.body.domain) /\ ~Missing(cur.body.service)) =>
       /\ cur.called
       /\ cur.plan.method = "POST"
       /\ cur.plan.path = <<Seg("api"), Seg("services"), TheValue(cur.body.domain),
                            TheValue(cur.body.service)>>
       /\ cur.plan.payload = Some(ExpectedServiceBody(cur.body))
       /\ cur.plan.wrapped
       /\ ~cur.threw => (cur.options.method = "POST" /\ calls[cur.id].attempts = 1)
  /\ \A id \in Req :
       LET c == calls[id]
       IN  (c.wrapped /\ c.label = "Failed to call service" /\ c.returned.state = "fulfilled") =>
             /\ resp[id].count = 1
             /\ resp[id].status = 200
             /\ resp[id].wrapped
             /\ resp[id].value = c.returned.value
             /\ resp[id].error = None

\* a call-service request gave the entity light.kitchen and a service_data
\* holding another entity_id: light.kitchen went upstream
C24_Witness ==
  /\ cur.stage = "handler" /\ cur.path = "/ha/call-service"
  /\ cur.body.entity_id = Some(<<"light", ".", "kitchen">>)
  /\ cur.body.service_data = Some([k \in {"entity_id"} |-> <<"light">>])
  /\ Called
  /\ cur.plan.path = <<Seg("api"), Seg("services"), <<"light">>, <<"turn_on">>>>
  /\ cur.plan.payload = Some([k \in {"entity_id"} |-> <<"light", ".", "kitchen">>])

\* a call-service call succeeded and its result went to the caller, wrapped
C24_Succeeded ==
  \E id \in Req :
    /\ calls[id].wrapped /\ calls[id].label = "Failed to call service"
    /\ calls[id].first = "end" /\ calls[id].statusCode = 200
    /\ resp[id].wrapped /\ resp[id].value = JsonValue("[]")

\* an OPTIONS request was answered by the CORS middleware with status 200: no
\* authentication, no handler, no upstream call
PreflightAnswered ==
  /\ cur.stage = "preflight"
  /\ cur.plan = NoPlan /\ ~cur.called /\ ~cur.threw
  /\ cur.logged = None
  /\ calls[cur.id] = NoCall
  /\ resp[cur.id].count = 1
  /\ resp[cur.id].status = 200
  /\ resp[cur.id].error = None /\ resp[cur.id].message = None
  /\ resp[cur.id].value = NoValue /\ resp[cur.id].health = None

\* C25 as stated: an OPTIONS request to any path is answered 200 with no body
\* before authentication, never 401, and causes no upstream call.
C25_PreflightNoBody ==
  (cur.method = "OPTIONS") => (PreflightAnswered /\ resp[cur.id].text = None)

\* C25: an OPTIONS request to any path is answered 200 before authentication,
\* with the status text OK as its body, never 401 whatever key is configured or
\* sent, and causes no upstream call.
C25_PreflightAnswered200 ==
  (cur.method = "OPTIONS") => (PreflightAnswered /\ resp[cur.id].text = Some(<<"OK">>))

\* an OPTIONS request with a wrong key, to a route that needs the key, got 200
C25_Witness ==
  /\ cur.method = "OPTIONS" /\ cur.path = "/ha/states"
  /\ AGENT_API_KEY = Some(<<"k", "k">>)
  /\ cur.xkey = Some(<<"k">>)
  /\ resp[cur.id].status = 200
  /\ calls[cur.id] = NoCall

====
